---- MODULE Spec2Model ----
(***************************************************************************)
(* proto-to-glue: ProtoToGlueConverter (src/src/generate-glue-schema.ts).  *)
(*                                                                         *)
(* A converter instance owns a type mapping and a cache of converted       *)
(* message types (_processedMessages).  Each generateGlueSchema call loads *)
(* a .proto file, picks a message type and converts it.  JavaScript is     *)
(* single threaded and the call is synchronous, so one call is one step.   *)
(*                                                                         *)
(* Names are modelled as the segment sequences String.split(".") yields:   *)
(* ".A.B" is <<"", "A", "B">> and "A.B" is <<"A", "B">>.                   *)
(***************************************************************************)
EXTENDS Integers, Sequences, FiniteSets, TLC

VARIABLES
    config,             \* the constructor's argument config.typeMapping
    typeMapping,        \* this.config.typeMapping
    _processedMessages, \* this._processedMessages: fullName -> Column[]
    calls,              \* number of generateGlueSchema calls made so far
    last,               \* the latest call: its arguments, outcome and trace
    convertCount,       \* <<parent fullName, field name>> -> _convertField calls so far
    storeCount,         \* fullName -> _convertMessageType runs so far that stored columns
    json,               \* the latest convertProtoToJSONGlueSchema call and its outcome
    graph,              \* the .proto file two interleaved conversions work on (0: none)
    threads             \* the interleaved conversions: request, call stack, outcome

vars == <<config, typeMapping, _processedMessages, calls, last, convertCount,
          storeCount, json, graph, threads>>

(***************************************************************************)
(* Bounds                                                                  *)
(***************************************************************************)
\* generateGlueSchema calls made on the one converter instance
MaxCalls == 2
\* frames of _detectCircularReference the JavaScript stack holds before the
\* engine throws RangeError (Maximum call stack size exceeded)
StackLimit == 5

(***************************************************************************)
(* Glue catalog types (@aws-cdk/aws-glue-alpha Schema), by structure       *)
(***************************************************************************)
Primitive(s) == [kind |-> "primitive", inputString |-> s]
GlueArray(itemType) == [kind |-> "array", itemType |-> itemType]
GlueStruct(columns) == [kind |-> "struct", columns |-> columns]

DOUBLE == Primitive("double")
FLOAT == Primitive("float")
BIG_INT == Primitive("bigint")
INTEGER == Primitive("int")
BOOLEAN_T == Primitive("boolean")
STRING_T == Primitive("string")

Column(name, type) == [name |-> name, type |-> type]

DEFAULT_TYPE_MAPPING ==
    [tag \in {"double", "float", "int64", "uint64", "int32", "bool",
              "string", "bytes", "enum"} |->
        CASE tag = "double" -> DOUBLE
          [] tag = "float" -> FLOAT
          [] tag = "int64" -> BIG_INT
          [] tag = "uint64" -> BIG_INT
          [] tag = "int32" -> INTEGER
          [] tag = "bool" -> BOOLEAN_T
          [] tag = "string" -> STRING_T
          [] tag = "bytes" -> STRING_T
          [] tag = "enum" -> STRING_T]

\* config.typeMapping values a converter is constructed with
NoOverride == [tag \in {} |-> STRING_T]
Overrides ==
    { NoOverride,
      [tag \in {"int32"} |-> BIG_INT],
      [tag \in {"enum"} |-> INTEGER],
      [tag \in {"uint32"} |-> INTEGER] }

\* variant: the spread in the other order, the defaults win
MergeMapping_DefaultsWin(override) == DEFAULT_TYPE_MAPPING @@ override

\* { ...DEFAULT_TYPE_MAPPING, ...config.typeMapping }
MergeMapping(override) == override @@ DEFAULT_TYPE_MAPPING

(***************************************************************************)
(* Resolved protobuf roots.  A root is the sequence of its declarations in *)
(* declaration order; a declaration's parent is its fullName minus the     *)
(* last segment.  A field holds its declared type string and, for a        *)
(* message or enum reference, the fullName of the declaration it resolved  *)
(* to (<<>> stands for resolvedType === null).                             *)
(***************************************************************************)
NoType == <<>>

Abs(path) == <<"">> \o path

TypeDecl(path, fields) ==
    [fullName |-> Abs(path), kind |-> "Type",
     fields |-> [i \in 1..Len(fields) |-> fields[i] @@ [parent |-> Abs(path)]]]
EnumDecl(path) == [fullName |-> Abs(path), kind |-> "Enum", fields |-> <<>>]
NamespaceDecl(path) == [fullName |-> Abs(path), kind |-> "Namespace", fields |-> <<>>]

Scalar(name, tag) ==
    [name |-> name, type |-> tag, resolvedType |-> NoType, repeated |-> FALSE]
RepeatedScalar(name, tag) ==
    [name |-> name, type |-> tag, resolvedType |-> NoType, repeated |-> TRUE]
Ref(name, path) ==
    [name |-> name, type |-> path[Len(path)], resolvedType |-> Abs(path), repeated |-> FALSE]
RepeatedRef(name, path) ==
    [name |-> name, type |-> path[Len(path)], resolvedType |-> Abs(path), repeated |-> TRUE]

\* test-comprehensive-mock.proto
ComprehensiveMock ==
    << EnumDecl(<<"GlobalStatus">>),
       TypeDecl(<<"NestedMessage">>,
           << Scalar("is_active", "bool"), Scalar("score", "double") >>),
       TypeDecl(<<"TestMessage">>,
           << Scalar("name", "string"), Scalar("age", "int32"),
              Scalar("height", "double"), Scalar("weight", "float"),
              Scalar("is_student", "bool"), Scalar("custom_data", "bytes"),
              RepeatedScalar("hobbies", "string"), RepeatedScalar("scores", "int64"),
              Ref("nested_info", <<"NestedMessage">>),
              Ref("user_status", <<"GlobalStatus">>),
              RepeatedRef("status_history", <<"GlobalStatus">>),
              Ref("local_status", <<"TestMessage", "LocalStatus">>) >>),
       EnumDecl(<<"TestMessage", "LocalStatus">>) >>

\* test-empty-mock.proto
EmptyMock == << >>

\* test-direct-circular-mock.proto
DirectCircularMock ==
    << TypeDecl(<<"CircularMessage">>,
           << Ref("self", <<"CircularMessage">>), Scalar("name", "string") >>) >>

\* test-indirect-circular-mock.proto
IndirectCircularMock ==
    << TypeDecl(<<"MessageA">>,
           << Ref("ref", <<"MessageB">>), Scalar("name", "string") >>),
       TypeDecl(<<"MessageB">>,
           << Ref("back_ref", <<"MessageA">>), Scalar("value", "int32") >>) >>

\* memoization-test.proto
MemoizationMock ==
    << TypeDecl(<<"ParentMessage">>,
           << Ref("nested_1", <<"NestedMessage">>),
              Ref("nested_2", <<"NestedMessage">>),
              Ref("nested_3", <<"NestedMessage">>) >>),
       TypeDecl(<<"NestedMessage">>,
           << Scalar("field1", "string"), Scalar("field2", "int32") >>) >>

\* README example.proto
ExampleProto ==
    << TypeDecl(<<"User">>,
           << Scalar("name", "string"), Scalar("age", "int32"),
              RepeatedScalar("hobbies", "string"),
              Ref("address", <<"Address">>) >>),
       TypeDecl(<<"Address">>,
           << Scalar("street", "string"), Scalar("city", "string") >>) >>

\* message MessageA { MessageB ref = 1; MessageC far = 2; }
\* message MessageB { MessageB self = 1; }
\* message MessageC { MessageA back_ref = 1; }
\* MessageA is on the cycle A -> C -> A; MessageB loops on itself.
SideLoopProto ==
    << TypeDecl(<<"MessageA">>,
           << Ref("ref", <<"MessageB">>), Ref("far", <<"MessageC">>) >>),
       TypeDecl(<<"MessageB">>, << Ref("self", <<"MessageB">>) >>),
       TypeDecl(<<"MessageC">>, << Ref("back_ref", <<"MessageA">>) >>) >>

\* message MessageA { MessageB ref = 1; }  message MessageB { MessageC ref = 1; }
\* message MessageC { repeated MessageA back_ref = 1; }
ThreeCycleProto ==
    << TypeDecl(<<"MessageA">>, << Ref("ref", <<"MessageB">>) >>),
       TypeDecl(<<"MessageB">>, << Ref("ref", <<"MessageC">>) >>),
       TypeDecl(<<"MessageC">>, << RepeatedRef("back_ref", <<"MessageA">>) >>) >>

\* message Tree { Node root = 1; }
\* message Node { uint64 id = 1; repeated Node children = 2; }
\* Tree is on no cycle; Node, which it contains, is.
TreeProto ==
    << TypeDecl(<<"Tree">>, << Ref("root", <<"Node">>) >>),
       TypeDecl(<<"Node">>,
           << Scalar("id", "uint64"), RepeatedRef("children", <<"Node">>) >>) >>

\* message Team { string title = 1; repeated Member members = 2; uint32 size = 3; }
\* message Member { string name = 1; Status status = 2;
\*                  repeated Status history = 3; enum Status { ON = 0; } }
\* uint32 is a protobuf scalar with no entry in DEFAULT_TYPE_MAPPING.
TeamProto ==
    << TypeDecl(<<"Team">>,
           << Scalar("title", "string"),
              RepeatedRef("members", <<"Member">>),
              Scalar("size", "uint32") >>),
       TypeDecl(<<"Member">>,
           << Scalar("name", "string"),
              Ref("status", <<"Member", "Status">>),
              RepeatedRef("history", <<"Member", "Status">>) >>),
       EnumDecl(<<"Member", "Status">>) >>

\* message Outer { message Inner { int64 value = 1; } Inner inner = 1; }
NestedDeclProto ==
    << TypeDecl(<<"Outer">>, << Ref("inner", <<"Outer", "Inner">>) >>),
       TypeDecl(<<"Outer", "Inner">>, << Scalar("value", "int64") >>) >>

\* package pkg; enum Level { LOW = 0; } message Address { Level level = 1; }
PackageProto ==
    << NamespaceDecl(<<"pkg">>),
       EnumDecl(<<"pkg", "Level">>),
       TypeDecl(<<"pkg", "Address">>, << Ref("level", <<"pkg", "Level">>) >>) >>

\* enum Address { NONE = 0; }  message User { Address address = 1; }
EnumFirstProto ==
    << EnumDecl(<<"Address">>),
       TypeDecl(<<"User">>, << Ref("address", <<"Address">>) >>) >>

\* the .proto files a call may be given, by path
ProtoFiles ==
    << ComprehensiveMock, EmptyMock, DirectCircularMock, IndirectCircularMock,
       MemoizationMock, ExampleProto, SideLoopProto, ThreeCycleProto,
       TreeProto, TeamProto, NestedDeclProto, PackageProto, EnumFirstProto >>

(***************************************************************************)
(* Reading a root                                                          *)
(***************************************************************************)
RootName == <<"">>

NoDecl == [fullName |-> NoType, kind |-> "None", fields |-> <<>>]

HasDecl(root, fullName) == \E i \in 1..Len(root) : root[i].fullName = fullName

Decl(root, fullName) ==
    IF HasDecl(root, fullName)
    THEN root[CHOOSE i \in 1..Len(root) : root[i].fullName = fullName]
    ELSE NoDecl

\* x instanceof protobuf.Type, x instanceof protobuf.Enum
IsType(root, fullName) == Decl(root, fullName).kind = "Type"
IsEnum(root, fullName) == Decl(root, fullName).kind = "Enum"

\* Object.values(messageType.fields): the fields in declaration order
FieldsOf(root, messageType) == Decl(root, messageType).fields

\* namespace.nestedArray: the declarations directly inside a namespace
IsChild(ns, d) ==
    /\ Len(d.fullName) = Len(ns) + 1
    /\ SubSeq(d.fullName, 1, Len(ns)) = ns
NestedArray(root, ns) == SelectSeq(root, LAMBDA d : IsChild(ns, d))

(***************************************************************************)
(* root.lookupType(path): protobufjs resolves the path from the root, one  *)
(* segment at a time; a first segment that names nothing in a namespace is *)
(* searched for inside that namespace's nested namespaces, in order.  Only *)
(* a message type is accepted.  NoType stands for the thrown               *)
(* "no such type" error.                                                   *)
(***************************************************************************)
RECURSIVE Lookup(_, _, _)
RECURSIVE LookupNested(_, _, _, _)

LookupNested(root, nested, i, path) ==
    IF i > Len(nested) THEN NoType
    ELSE LET found == IF nested[i].kind \in {"Type", "Namespace"}
                      THEN Lookup(root, nested[i].fullName, path)
                      ELSE NoType
         IN  IF found # NoType THEN found
             ELSE LookupNested(root, nested, i + 1, path)

Lookup(root, ns, path) ==
    IF path = <<>> THEN NoType
    ELSE IF path[1] = "" THEN Lookup(root, RootName, Tail(path))
    ELSE LET found == Decl(root, ns \o <<path[1]>>)
         IN  IF found.kind # "None"
             THEN IF Len(path) = 1
                  THEN IF found.kind = "Type" THEN found.fullName ELSE NoType
                  ELSE IF found.kind \in {"Type", "Namespace"}
                       THEN Lookup(root, found.fullName, Tail(path))
                       ELSE NoType
             ELSE LookupNested(root, NestedArray(root, ns), 1, path)

\* variant: root.lookup(path) without the message-type filter
lookupType_NoFilter(root, path) ==
    LET named == Decl(root, IF path # <<>> /\ path[1] = "" THEN path ELSE Abs(path))
    IN  IF named.kind # "None" THEN named.fullName
        ELSE Lookup(root, RootName, path)

lookupType(root, path) == Lookup(root, RootName, path)

\* root.nestedArray.find((nested) => nested instanceof protobuf.Type)
FirstType(root) ==
    LET top == SelectSeq(NestedArray(root, RootName), LAMBDA d : d.kind = "Type")
    IN  IF Len(top) = 0 THEN NoType ELSE top[1].fullName

(***************************************************************************)
(* Errors                                                                  *)
(***************************************************************************)
NoError == [error |-> "none", arg |-> <<>>]
\* Circular reference detected for message type: ${fullName}
CircularReference(fullName) == [error |-> "CircularReference", arg |-> fullName]
\* Unsupported field type: ${fieldType}
UnsupportedType(tag) == [error |-> "UnsupportedType", arg |-> <<tag>>]
\* Message type not found in proto file
NoMessageTypeFound == [error |-> "NoMessageTypeFound", arg |-> <<>>]
\* lookupType: no such type: ${path}
MessageNotFound(path) == [error |-> "MessageNotFound", arg |-> path]
\* RangeError: Maximum call stack size exceeded
RangeError == [error |-> "RangeError", arg |-> <<>>]

(***************************************************************************)
(* _detectCircularReference                                                *)
(***************************************************************************)
RECURSIVE _detectCircularReference(_, _, _, _)
RECURSIVE DetectNested(_, _, _, _, _)

\* for (const field of Object.values(messageType.fields)) ...
DetectNested(root, fields, i, referenceMessageType, depth) ==
    IF i > Len(fields) THEN NoError
    ELSE LET thrown == IF IsType(root, fields[i].resolvedType)
                       THEN _detectCircularReference(root, fields[i].resolvedType,
                                                     referenceMessageType, depth + 1)
                       ELSE NoError
         IN  IF thrown # NoError THEN thrown
             ELSE DetectNested(root, fields, i + 1, referenceMessageType, depth)

_detectCircularReference(root, messageType, referenceMessageType, depth) ==
    IF depth > StackLimit THEN RangeError
    ELSE LET fields == FieldsOf(root, messageType)
             circularFields ==
                 SelectSeq(fields, LAMBDA s : s.resolvedType = referenceMessageType)
         IN  IF Len(circularFields) > 0
             THEN CircularReference(referenceMessageType)
             ELSE DetectNested(root, fields, 1, referenceMessageType, depth)

(***************************************************************************)
(* Conversion.  Every operator takes the converter's state st (the cache   *)
(* and the trace of the running call) and returns the value or the thrown  *)
(* error together with the state it leaves.                                *)
(***************************************************************************)
EmptyCache == [fullName \in {} |-> <<>>]

NoColumn == Column("", Primitive(""))

Returned(val, st) == [ok |-> TRUE, val |-> val, err |-> NoError, st |-> st]
Thrown(err, val, st) == [ok |-> FALSE, val |-> val, err |-> err, st |-> st]

\* trace of one _convertField call
FieldEvent(field, before, r) ==
    [field |-> field, before |-> before, ok |-> r.ok, column |-> r.val, err |-> r.err]
\* trace of one _convertMessageType call
\* (cached: the cache answered; detect: _detectCircularReference was run)
MessageEvent(messageType, before, cached, detect, r) ==
    [type |-> messageType, before |-> before, cached |-> cached, detect |-> detect,
     ok |-> r.ok, columns |-> r.val, err |-> r.err]

LogField(field, before, r) ==
    [r EXCEPT !.st.fields = Append(@, FieldEvent(field, before, r))]
LogMessage(messageType, before, cached, detect, r) ==
    [r EXCEPT !.st.messages =
        Append(@, MessageEvent(messageType, before, cached, detect, r))]

RECURSIVE _convertMessageType(_, _, _, _)
RECURSIVE MapFields(_, _, _, _, _, _)

\* if (fieldType instanceof protobuf.Type) return { name, type: struct(...) }
ConvertMessageField(root, mapping, field, st) ==
    LET r == _convertMessageType(root, mapping, field.resolvedType, st)
    IN  IF r.ok
        THEN Returned(Column(field.name, GlueStruct(r.val)), r.st)
        ELSE Thrown(r.err, NoColumn, r.st)

\* variant: enums hard-coded to glueSchema.STRING
ConvertEnumField_HardCodedString(mapping, field, st) ==
    Returned(Column(field.name, STRING_T), st)

\* if (fieldType instanceof protobuf.Enum) return { name, type: typeMapping.enum }
ConvertEnumField(mapping, field, st) ==
    Returned(Column(field.name, mapping["enum"]), st)

\* variant: the lookup reads DEFAULT_TYPE_MAPPING, not the configured mapping
ConvertBasicField_IgnoresOverride(mapping, field, st) ==
    IF field.type \in DOMAIN DEFAULT_TYPE_MAPPING
    THEN Returned(Column(field.name, DEFAULT_TYPE_MAPPING[field.type]), st)
    ELSE Thrown(UnsupportedType(field.type), NoColumn, st)

\* variant: an unknown tag falls back to glueSchema.STRING instead of throwing
ConvertBasicField_FallbackString(mapping, field, st) ==
    IF field.type \in DOMAIN mapping
    THEN Returned(Column(field.name, mapping[field.type]), st)
    ELSE Returned(Column(field.name, STRING_T), st)

\* if (assertKey(typeMapping, fieldType)) return { name, type: typeMapping[fieldType] }
\* throw new Error(`Unsupported field type: ${fieldType}`)
ConvertBasicField(mapping, field, st) ==
    IF field.type \in DOMAIN mapping
    THEN Returned(Column(field.name, mapping[field.type]), st)
    ELSE Thrown(UnsupportedType(field.type), NoColumn, st)

\* const fieldType = field.resolvedType ?? field.type
_convertNonRepeatedField(root, mapping, field, st) ==
    IF IsType(root, field.resolvedType)
    THEN ConvertMessageField(root, mapping, field, st)
    ELSE IF IsEnum(root, field.resolvedType)
    THEN ConvertEnumField(mapping, field, st)
    ELSE ConvertBasicField(mapping, field, st)

\* variant: the element column is returned without the array wrapper
_resolveRepeatedField_NoArray(root, mapping, field, st) ==
    _convertNonRepeatedField(root, mapping, field, st)

_resolveRepeatedField(root, mapping, field, st) ==
    LET r == _convertNonRepeatedField(root, mapping, field, st)
    IN  IF r.ok
        THEN Returned(Column(field.name, GlueArray(r.val.type)), r.st)
        ELSE r

_convertField(root, mapping, field, st) ==
    LogField(field, st.cache,
        IF field.repeated
        THEN _resolveRepeatedField(root, mapping, field, st)
        ELSE _convertNonRepeatedField(root, mapping, field, st))

\* Object.values(messageType.fields).map((field) => this._convertField(field))
MapFields(root, mapping, fields, i, columns, st) ==
    IF i > Len(fields) THEN Returned(columns, st)
    ELSE LET r == _convertField(root, mapping, fields[i], st)
         IN  IF r.ok
             THEN MapFields(root, mapping, fields, i + 1, Append(columns, r.val), r.st)
             ELSE Thrown(r.err, <<>>, r.st)

\* variant: the converted columns are not stored in _processedMessages
_convertMessageType_NoStore(root, mapping, messageType, st) ==
    IF messageType \in DOMAIN st.cache
    THEN LogMessage(messageType, st.cache, TRUE, FALSE,
             Returned(st.cache[messageType], st))
    ELSE LET thrown == _detectCircularReference(root, messageType, messageType, 0)
             r == MapFields(root, mapping, FieldsOf(root, messageType), 1, <<>>, st)
         IN  LogMessage(messageType, st.cache, FALSE, TRUE,
                 IF thrown # NoError THEN Thrown(thrown, <<>>, st) ELSE r)

\* variant: no cycle check; the type is entered in the cache, with no
\* columns yet, before its fields are converted
_convertMessageType_PlaceholderNoDetect(root, mapping, messageType, st) ==
    IF messageType \in DOMAIN st.cache
    THEN LogMessage(messageType, st.cache, TRUE, FALSE,
             Returned(st.cache[messageType], st))
    ELSE LET r == MapFields(root, mapping, FieldsOf(root, messageType), 1, <<>>,
                      [st EXCEPT !.cache = (messageType :> <<>>) @@ @])
         IN  LogMessage(messageType, st.cache, FALSE, FALSE,
                 IF r.ok
                 THEN Returned(r.val,
                          [r.st EXCEPT !.cache = (messageType :> r.val) @@ @])
                 ELSE r)

\* variant: the cache key is assigned also when a field's conversion threw
_convertMessageType_StoresOnFailure(root, mapping, messageType, st) ==
    IF messageType \in DOMAIN st.cache
    THEN LogMessage(messageType, st.cache, TRUE, FALSE,
             Returned(st.cache[messageType], st))
    ELSE LET thrown == _detectCircularReference(root, messageType, messageType, 0)
             r == MapFields(root, mapping, FieldsOf(root, messageType), 1, <<>>, st)
         IN  LogMessage(messageType, st.cache, FALSE, TRUE,
                 IF thrown # NoError THEN Thrown(thrown, <<>>, st)
                 ELSE [r EXCEPT !.st.cache = (messageType :> r.val) @@ @])

\* variant: storing a type's columns replaces the whole cache
_convertMessageType_StoreEvicts(root, mapping, messageType, st) ==
    IF messageType \in DOMAIN st.cache
    THEN LogMessage(messageType, st.cache, TRUE, FALSE,
             Returned(st.cache[messageType], st))
    ELSE LET thrown == _detectCircularReference(root, messageType, messageType, 0)
             r == MapFields(root, mapping, FieldsOf(root, messageType), 1, <<>>, st)
         IN  LogMessage(messageType, st.cache, FALSE, TRUE,
                 IF thrown # NoError THEN Thrown(thrown, <<>>, st)
                 ELSE IF r.ok
                 THEN Returned(r.val, [r.st EXCEPT !.cache = (messageType :> r.val)])
                 ELSE r)

\* variant: the cache key is assigned before the cycle check
_convertMessageType_StoresBeforeDetect(root, mapping, messageType, st) ==
    IF messageType \in DOMAIN st.cache
    THEN LogMessage(messageType, st.cache, TRUE, FALSE,
             Returned(st.cache[messageType], st))
    ELSE LET thrown == _detectCircularReference(root, messageType, messageType, 0)
             r == MapFields(root, mapping, FieldsOf(root, messageType), 1, <<>>, st)
         IN  LogMessage(messageType, st.cache, FALSE, TRUE,
                 IF thrown # NoError
                 THEN Thrown(thrown, <<>>,
                          [st EXCEPT !.cache = (messageType :> <<>>) @@ @])
                 ELSE IF r.ok
                 THEN Returned(r.val,
                          [r.st EXCEPT !.cache = (messageType :> r.val) @@ @])
                 ELSE r)

_convertMessageType(root, mapping, messageType, st) ==
    IF messageType \in DOMAIN st.cache
    THEN LogMessage(messageType, st.cache, TRUE, FALSE,
             Returned(st.cache[messageType], st))
    ELSE LET thrown == _detectCircularReference(root, messageType, messageType, 0)
             r == MapFields(root, mapping, FieldsOf(root, messageType), 1, <<>>, st)
         IN  LogMessage(messageType, st.cache, FALSE, TRUE,
                 IF thrown # NoError THEN Thrown(thrown, <<>>, st)
                 ELSE IF r.ok
                 THEN Returned(r.val,
                          [r.st EXCEPT !.cache = (messageType :> r.val) @@ @])
                 ELSE r)

(***************************************************************************)
(* generateGlueSchema                                                      *)
(***************************************************************************)
Undefined == [given |-> FALSE, path |-> <<>>]
Name(path) == [given |-> TRUE, path |-> path]

\* the message names tried on a root: none, an absent one, for every
\* declaration its name as written from the root and its bare last segment,
\* and for every message type its name with the leading dot
MessageNames(root) ==
    {Undefined, Name(<<"NonExistentMessage">>)}
        \cup {Name(Tail(root[i].fullName)) : i \in 1..Len(root)}
        \cup {Name(<<root[i].fullName[Len(root[i].fullName)]>>) : i \in 1..Len(root)}
        \cup {Name(root[i].fullName) : i \in {j \in 1..Len(root) : root[j].kind = "Type"}}

TargetType(root, messageName) ==
    IF messageName.given THEN lookupType(root, messageName.path) ELSE FirstType(root)

generateGlueSchema(root, mapping, cache, messageName) ==
    LET targetType == TargetType(root, messageName)
        st == [cache |-> cache, fields |-> <<>>, messages |-> <<>>]
    IN  IF targetType = NoType
        THEN Thrown(IF messageName.given THEN MessageNotFound(messageName.path)
                    ELSE NoMessageTypeFound, <<>>, st)
        ELSE _convertMessageType(root, mapping, targetType, st)

(***************************************************************************)
(* The converter                                                           *)
(***************************************************************************)
NoCall ==
    [protoFile |-> 0, messageName |-> Undefined, targetType |-> NoType,
     before |-> EmptyCache, ok |-> FALSE, columns |-> <<>>, err |-> NoError,
     fields |-> <<>>, messages |-> <<>>]

\* history: how often each field was converted and each cache key assigned
FieldKey(field) == <<field.parent, field.name>>
Inc(counts, key) ==
    IF key \in DOMAIN counts THEN [counts EXCEPT ![key] = @ + 1]
    ELSE (key :> 1) @@ counts

RECURSIVE CountFields(_, _, _)
CountFields(counts, events, i) ==
    IF i > Len(events) THEN counts
    ELSE CountFields(Inc(counts, FieldKey(events[i].field)), events, i + 1)

RECURSIVE CountStores(_, _, _)
CountStores(counts, events, i) ==
    IF i > Len(events) THEN counts
    ELSE CountStores(IF events[i].ok /\ ~events[i].cached
                     THEN Inc(counts, events[i].type) ELSE counts,
                     events, i + 1)

NoCounts == [key \in {} |-> 0]

\* no convertProtoToJSONGlueSchema call made yet
NoJsonCall ==
    [protoFile |-> 0, messageName |-> Undefined, config |-> NoOverride,
     ok |-> FALSE, val |-> <<>>, err |-> NoError]

\* new ProtoToGlueConverter(config)
Init ==
    /\ config \in Overrides
    /\ typeMapping = MergeMapping(config)
    /\ _processedMessages = EmptyCache
    /\ calls = 0
    /\ last = NoCall
    /\ convertCount = NoCounts
    /\ storeCount = NoCounts
    /\ json = NoJsonCall
    /\ graph = 0
    /\ threads = <<>>

GenerateGlueSchema(protoFile, messageName) ==
    LET root == ProtoFiles[protoFile]
        r == generateGlueSchema(root, typeMapping, _processedMessages, messageName)
    IN  /\ calls < MaxCalls
        /\ calls' = calls + 1
        /\ _processedMessages' = r.st.cache
        /\ last' = [protoFile |-> protoFile, messageName |-> messageName,
                    targetType |-> TargetType(root, messageName),
                    before |-> _processedMessages,
                    ok |-> r.ok, columns |-> r.val, err |-> r.err,
                    fields |-> r.st.fields, messages |-> r.st.messages]
        /\ convertCount' = CountFields(convertCount, r.st.fields, 1)
        /\ storeCount' = CountStores(storeCount, r.st.messages, 1)
        /\ UNCHANGED <<config, typeMapping, json, graph, threads>>

Next ==
    \E protoFile \in 1..Len(ProtoFiles) :
        \E messageName \in MessageNames(ProtoFiles[protoFile]) :
            GenerateGlueSchema(protoFile, messageName)

Spec == Init /\ [][Next]_vars

(***************************************************************************)
(* The convenience functions.  Each call constructs its own converter, so  *)
(* the calls are independent of any converter instance: SpecJSON is the    *)
(* state machine of convertProtoToJSONGlueSchema calls alone.              *)
(***************************************************************************)
RECURSIVE InputString(_)
RECURSIVE JoinColumns(_, _)

\* columns.map((c) => `${c.name}:${c.type.inputString}`).join(",")
JoinColumns(columns, i) ==
    IF i > Len(columns) THEN ""
    ELSE (IF i > 1 THEN "," ELSE "")
             \o columns[i].name \o ":" \o InputString(columns[i].type)
             \o JoinColumns(columns, i + 1)

\* Type.inputString of @aws-cdk/aws-glue-alpha
InputString(type) ==
    CASE type.kind = "primitive" -> type.inputString
      [] type.kind = "array" -> "array<" \o InputString(type.itemType) \o ">"
      [] type.kind = "struct" -> "struct<" \o JoinColumns(type.columns, 1) \o ">"

\* new ProtoToGlueConverter(config).generateGlueSchema(protoFile, messageName)
convertProtoToGlueSchema(root, messageName, override) ==
    generateGlueSchema(root, MergeMapping(override), EmptyCache, messageName)

\* .map((c) => ({ type: c.type.inputString, name: c.name }))
convertProtoToJSONGlueSchema(root, messageName, override) ==
    LET r == convertProtoToGlueSchema(root, messageName, override)
    IN  [ok |-> r.ok, err |-> r.err,
         val |-> [k \in 1..Len(r.val) |->
                     [type |-> InputString(r.val[k].type), name |-> r.val[k].name]]]

ConvertProtoToJSONGlueSchema(protoFile, messageName, override) ==
    LET r == convertProtoToJSONGlueSchema(ProtoFiles[protoFile], messageName, override)
    IN  /\ json' = [protoFile |-> protoFile, messageName |-> messageName,
                    config |-> override, ok |-> r.ok, val |-> r.val, err |-> r.err]
        /\ UNCHANGED <<config, typeMapping, _processedMessages, calls, last,
                       convertCount, storeCount, graph, threads>>

NextJSON ==
    \E protoFile \in 1..Len(ProtoFiles) :
        \E messageName \in MessageNames(ProtoFiles[protoFile]) :
            \E override \in Overrides :
                ConvertProtoToJSONGlueSchema(protoFile, messageName, override)

SpecJSON == Init /\ [][NextJSON]_vars

(***************************************************************************)
(* A converter used on a single .proto file: every call of SpecSingleGraph *)
(* is given the file chosen when the converter is constructed.             *)
(***************************************************************************)
InitSingleGraph ==
    /\ config \in Overrides
    /\ typeMapping = MergeMapping(config)
    /\ _processedMessages = EmptyCache
    /\ calls = 0
    /\ last = NoCall
    /\ convertCount = NoCounts
    /\ storeCount = NoCounts
    /\ json = NoJsonCall
    /\ graph \in 1..Len(ProtoFiles)
    /\ threads = <<>>

NextSingleGraph ==
    \E messageName \in MessageNames(ProtoFiles[graph]) :
        GenerateGlueSchema(graph, messageName)

SpecSingleGraph == InitSingleGraph /\ [][NextSingleGraph]_vars

(***************************************************************************)
(* Two conversions interleaved on one converter.  JavaScript runs each     *)
(* generateGlueSchema call to completion; SpecInterleaved is the same code *)
(* under a scheduler that may switch between two calls after each          *)
(* statement of _convertMessageType: the cache check, the cycle check, the *)
(* conversion of one field, the cache assignment.  A call's position is    *)
(* its stack of _convertMessageType frames: the message type, whether the  *)
(* cache and the cycle were checked, the next field and the columns built. *)
(***************************************************************************)
Threads == {1, 2}

\* the files and message names the interleaved calls are given
InterleavedFiles == {1, 4, 5, 6, 10, 11}
InterleavedNames(root) ==
    {Undefined}
        \cup {Name(Tail(root[i].fullName)) :
                 i \in {j \in 1..Len(root) : root[j].kind = "Type"}}

Frame(messageType) ==
    [type |-> messageType, phase |-> "check", i |-> 1, columns |-> <<>>]

NewThread(messageName) ==
    [messageName |-> messageName, pc |-> "begin", stack |-> <<>>,
     ok |-> FALSE, val |-> <<>>, err |-> NoError]

GraphRoot == ProtoFiles[graph]
Top(t) == t.stack[Len(t.stack)]
Running(p) == threads[p].pc = "run"

\* throw: the error leaves every frame of the call
Fail(t, err) ==
    [t EXCEPT !.pc = "done", !.stack = <<>>, !.ok = FALSE, !.val = <<>>, !.err = err]

\* return columns: to generateGlueSchema's caller from the outermost frame,
\* else into the struct (array of struct) column of the field being converted
Deliver(t, columns) ==
    LET rest == SubSeq(t.stack, 1, Len(t.stack) - 1)
    IN  IF rest = <<>>
        THEN [t EXCEPT !.pc = "done", !.stack = <<>>, !.ok = TRUE, !.val = columns]
        ELSE LET caller == rest[Len(rest)]
                 field == FieldsOf(GraphRoot, caller.type)[caller.i]
                 type == IF field.repeated THEN GlueArray(GlueStruct(columns))
                         ELSE GlueStruct(columns)
             IN  [t EXCEPT !.stack =
                     [rest EXCEPT ![Len(rest)] =
                         [caller EXCEPT !.columns = Append(@, Column(field.name, type)),
                                        !.i = @ + 1]]]

InitInterleaved ==
    /\ config \in Overrides
    /\ typeMapping = MergeMapping(config)
    /\ _processedMessages = EmptyCache
    /\ calls = 0
    /\ last = NoCall
    /\ convertCount = NoCounts
    /\ storeCount = NoCounts
    /\ json = NoJsonCall
    /\ graph \in InterleavedFiles
    /\ \E first, second \in InterleavedNames(ProtoFiles[graph]) :
           threads = <<NewThread(first), NewThread(second)>>

\* generateGlueSchema up to the call of _convertMessageType
Begin(p) ==
    LET t == threads[p]
        targetType == TargetType(GraphRoot, t.messageName)
    IN  /\ t.pc = "begin"
        /\ threads' = [threads EXCEPT ![p] =
               IF targetType = NoType
               THEN Fail(t, IF t.messageName.given
                            THEN MessageNotFound(t.messageName.path)
                            ELSE NoMessageTypeFound)
               ELSE [t EXCEPT !.pc = "run", !.stack = <<Frame(targetType)>>]]
        /\ UNCHANGED <<config, typeMapping, _processedMessages, calls, last,
                       convertCount, storeCount, json, graph>>

\* variant: a type is marked as processed as soon as it is first requested
CheckCache_MarksProcessed(p) ==
    LET t == threads[p]
        top == Top(t)
    IN  /\ Running(p)
        /\ top.phase = "check"
        /\ IF top.type \in DOMAIN _processedMessages
           THEN /\ threads' = [threads EXCEPT ![p] =
                       Deliver(t, _processedMessages[top.type])]
                /\ UNCHANGED _processedMessages
           ELSE /\ threads' = [threads EXCEPT ![p].stack[Len(t.stack)].phase = "detect"]
                /\ _processedMessages' = (top.type :> <<>>) @@ _processedMessages
        /\ UNCHANGED <<config, typeMapping, calls, last, convertCount, storeCount,
                       json, graph>>

\* if (messageType.fullName in this._processedMessages) return ...
CheckCache(p) ==
    LET t == threads[p]
        top == Top(t)
    IN  /\ Running(p)
        /\ top.phase = "check"
        /\ threads' = [threads EXCEPT ![p] =
               IF top.type \in DOMAIN _processedMessages
               THEN Deliver(t, _processedMessages[top.type])
               ELSE [t EXCEPT !.stack[Len(t.stack)].phase = "detect"]]
        /\ UNCHANGED <<config, typeMapping, _processedMessages, calls, last,
                       convertCount, storeCount, json, graph>>

\* this._detectCircularReference(messageType, messageType)
DetectCircular(p) ==
    LET t == threads[p]
        top == Top(t)
        thrown == _detectCircularReference(GraphRoot, top.type, top.type, 0)
    IN  /\ Running(p)
        /\ top.phase = "detect"
        /\ threads' = [threads EXCEPT ![p] =
               IF thrown # NoError THEN Fail(t, thrown)
               ELSE [t EXCEPT !.stack[Len(t.stack)].phase = "fields"]]
        /\ UNCHANGED <<config, typeMapping, _processedMessages, calls, last,
                       convertCount, storeCount, json, graph>>

\* one _convertField call of the map, for the field the frame is at: a
\* message-typed field enters _convertMessageType, any other field yields
\* its column or throws
NextField(t) == FieldsOf(GraphRoot, Top(t).type)[Top(t).i]

AfterConvertField(t, field, r) ==
    IF IsType(GraphRoot, field.resolvedType)
    THEN [t EXCEPT !.stack = Append(@, Frame(field.resolvedType))]
    ELSE IF r.ok
    THEN [t EXCEPT !.stack[Len(t.stack)].columns = Append(@, r.val),
                   !.stack[Len(t.stack)].i = @ + 1]
    ELSE Fail(t, r.err)

ConvertFieldStep(p) ==
    /\ Running(p)
    /\ Top(threads[p]).phase = "fields"
    /\ Top(threads[p]).i <= Len(FieldsOf(GraphRoot, Top(threads[p]).type))
    /\ threads' = [threads EXCEPT ![p] =
           AfterConvertField(threads[p], NextField(threads[p]),
               _convertField(GraphRoot, typeMapping, NextField(threads[p]),
                   [cache |-> _processedMessages, fields |-> <<>>, messages |-> <<>>]))]
    /\ convertCount' = Inc(convertCount, FieldKey(NextField(threads[p])))
    /\ UNCHANGED <<config, typeMapping, _processedMessages, calls, last,
                   storeCount, json, graph>>

\* this._processedMessages[messageType.fullName] = columns; return columns
StoreInCache(p) ==
    LET t == threads[p]
        top == Top(t)
    IN  /\ Running(p)
        /\ top.phase = "fields"
        /\ top.i > Len(FieldsOf(GraphRoot, top.type))
        /\ _processedMessages' = (top.type :> top.columns) @@ _processedMessages
        /\ storeCount' = Inc(storeCount, top.type)
        /\ threads' = [threads EXCEPT ![p] = Deliver(t, top.columns)]
        /\ UNCHANGED <<config, typeMapping, calls, last, convertCount, json, graph>>

NextInterleaved ==
    \E p \in Threads :
        \/ Begin(p)
        \/ CheckCache(p)
        \/ DetectCircular(p)
        \/ ConvertFieldStep(p)
        \/ StoreInCache(p)

SpecInterleaved == InitInterleaved /\ [][NextInterleaved]_vars

(***************************************************************************)
(* Vocabulary of the properties                                            *)
(***************************************************************************)
Called == last.protoFile # 0
LastRoot == ProtoFiles[last.protoFile]

\* the message types a message type's fields (singular or repeated) refer to
MessageRefs(root, messageType) ==
    LET fields == FieldsOf(root, messageType)
    IN  {fields[i].resolvedType :
            i \in {j \in 1..Len(fields) : IsType(root, fields[j].resolvedType)}}

RECURSIVE ReachFrom(_, _, _)
ReachFrom(root, frontier, seen) ==
    LET next == UNION {MessageRefs(root, t) : t \in frontier} \ seen
    IN  IF next = {} THEN seen ELSE ReachFrom(root, next, seen \cup next)

\* the message types reachable through one or more message-typed fields
Reachable(root, messageType) == ReachFrom(root, {messageType}, {})
OnCycle(root, messageType) == messageType \in Reachable(root, messageType)

(***************************************************************************)
(* C1: every _convertMessageType call for a message type that is reachable *)
(* from itself, made while the cache does not hold that type, throws       *)
(* CircularReference naming that type and returns no columns.              *)
(***************************************************************************)
C1_CycleThroughOriginReported ==
    \A i \in 1..Len(last.messages) :
        LET e == last.messages[i]
        IN  (e.type \notin DOMAIN e.before /\ OnCycle(LastRoot, e.type))
                => /\ ~e.ok
                   /\ e.err = CircularReference(e.type)
                   /\ e.columns = <<>>

(***************************************************************************)
(* C2: a generateGlueSchema call whose target type reaches any containment *)
(* cycle, through the target or not, throws CircularReference and returns  *)
(* no columns.                                                             *)
(***************************************************************************)
C2_AnyReachableCycleRejected ==
    (Called /\ last.targetType # NoType)
        => LET within == {last.targetType} \cup Reachable(LastRoot, last.targetType)
           IN  (\E t \in within : OnCycle(LastRoot, t))
                   => /\ ~last.ok
                      /\ last.err.error = "CircularReference"
                      /\ last.columns = <<>>

(***************************************************************************)
(* C3: every _convertMessageType call that returns gives one column per    *)
(* field of the message type, in the declared field order, the i-th column *)
(* named after the i-th field.                                             *)
(***************************************************************************)
C3_OneColumnPerFieldInOrder ==
    \A i \in 1..Len(last.messages) :
        LET e == last.messages[i]
            fields == FieldsOf(LastRoot, e.type)
        IN  e.ok => /\ Len(e.columns) = Len(fields)
                    /\ \A k \in 1..Len(fields) : e.columns[k].name = fields[k].name

(***************************************************************************)
(* C4: a non-repeated field whose type is a primitive tag of the active    *)
(* mapping converts to a column with the field's name and the mapping's    *)
(* entry for the tag: the override's entry when the converter was built    *)
(* with one for that tag, the documented default otherwise.                *)
(***************************************************************************)
DefaultTags ==
    {"double", "float", "int64", "uint64", "int32", "bool", "string", "bytes"}

DocumentedDefault(tag) ==
    CASE tag = "double" -> Primitive("double")
      [] tag = "float" -> Primitive("float")
      [] tag \in {"int64", "uint64"} -> Primitive("bigint")
      [] tag = "int32" -> Primitive("int")
      [] tag = "bool" -> Primitive("boolean")
      [] tag \in {"string", "bytes"} -> Primitive("string")

C4_PrimitiveFieldMapsByTag ==
    \A i \in 1..Len(last.fields) :
        LET ev == last.fields[i]
            f == ev.field
        IN  (~f.repeated /\ f.resolvedType = NoType /\ f.type \in DOMAIN typeMapping)
                => /\ ev.ok
                   /\ ev.column = Column(f.name, typeMapping[f.type])
                   /\ f.type \in DOMAIN config => ev.column.type = config[f.type]
                   /\ f.type \in DefaultTags \ DOMAIN config
                          => ev.column.type = DocumentedDefault(f.type)

C4_Witness ==
    \E i \in 1..Len(last.fields) :
        LET ev == last.fields[i]
        IN  /\ ~ev.field.repeated
            /\ ev.field.type = "int32"
            /\ "int32" \in DOMAIN config
            /\ ev.ok
            /\ ev.column = Column("age", Primitive("bigint"))

(***************************************************************************)
(* C5: a repeated field converts to a column with the field's name whose   *)
(* type is the array of the type the same field yields when converted as a *)
(* non-repeated field from the same cache (and fails as that conversion    *)
(* fails); a repeated message gives an array of a struct, a repeated enum  *)
(* an array of the mapping's enum entry.                                   *)
(***************************************************************************)
AsNonRepeated(ev) ==
    _convertNonRepeatedField(LastRoot, typeMapping, ev.field,
        [cache |-> ev.before, fields |-> <<>>, messages |-> <<>>])

C5_RepeatedIsArrayOfNonRepeated ==
    \A i \in 1..Len(last.fields) :
        LET ev == last.fields[i]
            f == ev.field
            single == AsNonRepeated(ev)
        IN  f.repeated
                => /\ ev.ok = single.ok
                   /\ ev.err = single.err
                   /\ ev.ok => /\ ev.column.name = f.name
                               /\ ev.column.type = GlueArray(single.val.type)
                               /\ IsType(LastRoot, f.resolvedType)
                                      => ev.column.type.itemType.kind = "struct"
                               /\ IsEnum(LastRoot, f.resolvedType)
                                      => ev.column.type.itemType = typeMapping["enum"]

C5_Witness ==
    /\ \E i \in 1..Len(last.fields) :
           LET ev == last.fields[i]
           IN  /\ ev.field.repeated
               /\ IsType(LastRoot, ev.field.resolvedType)
               /\ ev.ok
               /\ ev.column.type.kind = "array"
               /\ ev.column.type.itemType.kind = "struct"
    /\ \E i \in 1..Len(last.fields) :
           LET ev == last.fields[i]
           IN  /\ ev.field.repeated
               /\ IsEnum(LastRoot, ev.field.resolvedType)
               /\ ev.ok

(***************************************************************************)
(* C6: a field that resolves to an enum, top-level or declared inside a    *)
(* message, converts to the scalar registered under the tag enum (the      *)
(* override's entry when there is one, STRING otherwise), wrapped in an    *)
(* array when the field is repeated; the enum is never expanded.           *)
(***************************************************************************)
EnumEntry == IF "enum" \in DOMAIN config THEN config["enum"] ELSE Primitive("string")

C6_EnumFieldMapsToEnumEntry ==
    \A i \in 1..Len(last.fields) :
        LET ev == last.fields[i]
            f == ev.field
        IN  IsEnum(LastRoot, f.resolvedType)
                => /\ ev.ok
                   /\ ev.column.name = f.name
                   /\ ev.column.type =
                          IF f.repeated THEN GlueArray(EnumEntry) ELSE EnumEntry

C6_Witness ==
    /\ "enum" \in DOMAIN config
    /\ \E i \in 1..Len(last.fields) :
           LET ev == last.fields[i]
           IN  /\ ev.field.resolvedType = <<"", "TestMessage", "LocalStatus">>
               /\ ev.ok
               /\ ev.column = Column("local_status", Primitive("int"))
    /\ \E i \in 1..Len(last.fields) :
           LET ev == last.fields[i]
           IN  /\ ev.field.resolvedType = <<"", "GlobalStatus">>
               /\ ~ev.field.repeated
               /\ ev.column = Column("user_status", Primitive("int"))

(***************************************************************************)
(* C7: a non-repeated field that resolves to a message type N converts to  *)
(* a struct column with the field's own name whose sub-columns are the     *)
(* conversion of N: one per field of N, in N's field order, with the       *)
(* fields' names, and so on inside every nested message.                   *)
(***************************************************************************)
RECURSIVE IsConversionOf(_, _, _)
IsConversionOf(root, messageType, columns) ==
    LET fields == FieldsOf(root, messageType)
    IN  /\ Len(columns) = Len(fields)
        /\ \A k \in 1..Len(fields) :
               /\ columns[k].name = fields[k].name
               /\ (IsType(root, fields[k].resolvedType) /\ ~fields[k].repeated)
                      => /\ columns[k].type.kind = "struct"
                         /\ IsConversionOf(root, fields[k].resolvedType,
                                           columns[k].type.columns)
               /\ (IsType(root, fields[k].resolvedType) /\ fields[k].repeated)
                      => /\ columns[k].type.kind = "array"
                         /\ columns[k].type.itemType.kind = "struct"
                         /\ IsConversionOf(root, fields[k].resolvedType,
                                           columns[k].type.itemType.columns)

C7_MessageFieldIsStructOfItsType ==
    \A i \in 1..Len(last.fields) :
        LET ev == last.fields[i]
            f == ev.field
        IN  (~f.repeated /\ IsType(LastRoot, f.resolvedType) /\ ev.ok)
                => /\ ev.column.name = f.name
                   /\ ev.column.type.kind = "struct"
                   /\ IsConversionOf(LastRoot, f.resolvedType, ev.column.type.columns)

(***************************************************************************)
(* C8                                                                      *)
(***************************************************************************)
\* what the cache does for a request: a type whose name is a key is
\* answered with the stored columns, with no cycle detection and no
\* conversion of its fields; the stored columns are never replaced
CacheAnswers ==
    /\ \A i \in 1..Len(last.messages) :
           LET e == last.messages[i]
           IN  IF e.type \in DOMAIN e.before
               THEN /\ e.cached /\ ~e.detect /\ e.ok
                    /\ e.columns = e.before[e.type]
               ELSE ~e.cached /\ e.detect
    /\ \A i \in 1..Len(last.fields) :
           last.fields[i].field.parent \notin DOMAIN last.fields[i].before
    /\ \A fullName \in DOMAIN last.before :
           /\ fullName \in DOMAIN _processedMessages
           /\ _processedMessages[fullName] = last.before[fullName]

\* C8 as stated: no field of any message type is converted more than once
\* in a converter's life, and the cache answers every request after the
\* first successful one.
C8_FieldsConvertedAtMostOnce ==
    /\ \A key \in DOMAIN convertCount : convertCount[key] <= 1
    /\ CacheAnswers

\* C8 amended: at most one _convertMessageType run per message type name
\* converts its fields to completion and stores them (runs that throw
\* part-way may convert some of the fields again), and the cache answers
\* every request after that run.
C8_OneStoringConversionPerType ==
    /\ DOMAIN storeCount = DOMAIN _processedMessages
    /\ \A fullName \in DOMAIN storeCount : storeCount[fullName] = 1
    /\ CacheAnswers

\* the diamond of memoization-test.proto, then the same request again
C8_Witness ==
    /\ calls = 2
    /\ last.ok
    /\ last.targetType = <<"", "ParentMessage">>
    /\ last.targetType \in DOMAIN last.before
    /\ last.fields = <<>>
    /\ Len(last.columns) = 3
    /\ \A k \in 1..3 : last.columns[k].type = last.columns[1].type
    /\ convertCount[<<(<<"", "NestedMessage">>), "field1">>] = 1
    /\ storeCount[<<"", "NestedMessage">>] = 1

(***************************************************************************)
(* C9: a field that resolves to no message type and no enum and whose tag  *)
(* is neither a default tag nor a tag of the converter's override throws   *)
(* UnsupportedType carrying the tag: no column is produced for it and the  *)
(* generateGlueSchema call throws the same error and returns no columns.   *)
(***************************************************************************)
C9_UnknownTagThrows ==
    \A i \in 1..Len(last.fields) :
        LET ev == last.fields[i]
            f == ev.field
        IN  (/\ f.resolvedType = NoType
             /\ f.type \notin DefaultTags \cup {"enum"} \cup DOMAIN config)
                => /\ ~ev.ok
                   /\ ev.err = [error |-> "UnsupportedType", arg |-> <<f.type>>]
                   /\ ev.column = NoColumn
                   /\ ~last.ok
                   /\ last.err = ev.err
                   /\ last.columns = <<>>

C9_Witness ==
    /\ Len(last.fields) > 1
    /\ last.fields[1].ok
    /\ last.fields[Len(last.fields)].field.type = "uint32"
    /\ last.err = [error |-> "UnsupportedType", arg |-> <<"uint32">>]
    /\ last.columns = <<>>

(***************************************************************************)
(* C10                                                                     *)
(***************************************************************************)
StripDot(path) == IF path # <<>> /\ path[1] = "" THEN Tail(path) ELSE path

IsSuffix(path, full) ==
    /\ Len(path) <= Len(full)
    /\ SubSeq(full, Len(full) - Len(path) + 1, Len(full)) = path

MessageTypesOf(root) ==
    {root[i].fullName : i \in {j \in 1..Len(root) : root[j].kind = "Type"}}

Converts(fullName) ==
    /\ last.messages # <<>>
    /\ last.messages[Len(last.messages)].type = fullName

\* C10 as stated: with a message name, the call converts the message type
\* whose fully-qualified name is that name (with or without the leading
\* dot), and throws MessageNotFound, returning no columns, when the root
\* has no message type of that fully-qualified name.
C10_ExactFullyQualifiedName ==
    (Called /\ last.messageName.given)
        => LET exact == Abs(StripDot(last.messageName.path))
           IN  IF exact \in MessageTypesOf(LastRoot)
               THEN Converts(exact)
               ELSE /\ ~last.ok
                    /\ last.err.error = "MessageNotFound"
                    /\ last.columns = <<>>

\* C10 amended: with a message name, the call converts the message type of
\* that fully-qualified name when the root has one; otherwise the lookup
\* may resolve the name to a message type declared deeper whose
\* fully-qualified name ends with it; the call throws MessageNotFound,
\* converting nothing and returning no columns, whenever the lookup
\* resolves no message type, as it does when no message type's
\* fully-qualified name is or ends with the name.
C10_LookupResolvesName ==
    (Called /\ last.messageName.given)
        => LET path == StripDot(last.messageName.path)
               types == MessageTypesOf(LastRoot)
               candidates == {t \in types : IsSuffix(path, Tail(t))}
           IN  /\ Abs(path) \in types => last.targetType = Abs(path)
               /\ candidates = {} => last.targetType = NoType
               /\ last.targetType # NoType
                      => /\ last.targetType \in candidates
                         /\ Converts(last.targetType)
               /\ last.targetType = NoType
                      => /\ ~last.ok
                         /\ last.err = [error |-> "MessageNotFound",
                                        arg |-> last.messageName.path]
                         /\ last.columns = <<>>
                         /\ last.messages = <<>>
                         /\ _processedMessages = last.before

C10_Witness ==
    /\ Called
    /\ last.messageName = Name(<<"Inner">>)
    /\ last.targetType = <<"", "Outer", "Inner">>
    /\ last.ok
    /\ last.columns = <<Column("value", Primitive("bigint"))>>

(***************************************************************************)
(* C11: without a message name the call converts the first message type    *)
(* declared at the top level of the file, in declaration order, passing    *)
(* over enums and other declarations; it throws NoMessageTypeFound exactly *)
(* when the file declares no message type at all.                          *)
(***************************************************************************)
\* a declaration at the top level of its file: inside no message type
TopLevel(root, d) == ~IsType(root, SubSeq(d.fullName, 1, Len(d.fullName) - 1))

FirstDeclaredMessage(root) ==
    LET top == SelectSeq(root, LAMBDA d : d.kind = "Type" /\ TopLevel(root, d))
    IN  IF Len(top) = 0 THEN NoType ELSE top[1].fullName

C11_DefaultIsFirstDeclaredMessage ==
    (Called /\ ~last.messageName.given)
        => /\ (~last.ok /\ last.err = NoMessageTypeFound)
                  <=> MessageTypesOf(LastRoot) = {}
           /\ MessageTypesOf(LastRoot) # {}
                  => Converts(FirstDeclaredMessage(LastRoot))

(***************************************************************************)
(* C12: the active mapping holds the override's value for every tag of the *)
(* override and the default value for every other default tag.  Hence the  *)
(* columns a new converter with the override returns differ from those a   *)
(* new converter without override returns for the same file and message    *)
(* name only where a column's scalar type comes from a tag of the          *)
(* override, at any depth; and an outcome differs (columns against a       *)
(* thrown error) only through a tag of the override.                       *)
(***************************************************************************)
ItemOf(field, type) == IF field.repeated THEN type.itemType ELSE type

\* the tag a field's scalar type is looked up under ("" for a message)
TagOf(root, field) ==
    IF IsType(root, field.resolvedType) THEN ""
    ELSE IF IsEnum(root, field.resolvedType) THEN "enum"
    ELSE field.type

RECURSIVE SameButOverridden(_, _, _, _)
SameButOverridden(root, messageType, with, without) ==
    LET fields == FieldsOf(root, messageType)
    IN  /\ Len(with) = Len(fields)
        /\ Len(without) = Len(fields)
        /\ \A k \in 1..Len(fields) :
               LET f == fields[k]
               IN  /\ with[k].name = without[k].name
                   /\ with[k].type.kind = without[k].type.kind
                   /\ IF IsType(root, f.resolvedType)
                      THEN /\ ItemOf(f, with[k].type).kind = "struct"
                           /\ ItemOf(f, without[k].type).kind = "struct"
                           /\ SameButOverridden(root, f.resolvedType,
                                  ItemOf(f, with[k].type).columns,
                                  ItemOf(f, without[k].type).columns)
                      ELSE IF TagOf(root, f) \in DOMAIN config
                      THEN ItemOf(f, with[k].type) = config[TagOf(root, f)]
                      ELSE with[k] = without[k]

ThrownForOverriddenTag(err) ==
    /\ err.error = "UnsupportedType"
    /\ err.arg[1] \in DOMAIN config

C12_OverrideChangesOnlyItsTags ==
    /\ DOMAIN typeMapping = DOMAIN config \cup DefaultTags \cup {"enum"}
    /\ \A tag \in DOMAIN config : typeMapping[tag] = config[tag]
    /\ \A tag \in DefaultTags \ DOMAIN config : typeMapping[tag] = DocumentedDefault(tag)
    /\ "enum" \notin DOMAIN config => typeMapping["enum"] = Primitive("string")
    /\ (Called /\ last.before = EmptyCache)
           => LET d == generateGlueSchema(LastRoot, DEFAULT_TYPE_MAPPING, EmptyCache,
                                          last.messageName)
              IN  /\ (last.ok /\ d.ok)
                         => SameButOverridden(LastRoot, last.targetType,
                                              last.columns, d.val)
                  /\ (last.ok /\ ~d.ok) => ThrownForOverriddenTag(d.err)
                  /\ ~last.ok
                         => /\ ~d.ok
                            /\ d.err = last.err \/ ThrownForOverriddenTag(d.err)

\* the README's custom mapping: int32 -> BIG_INT on User
C12_Witness ==
    /\ config = [tag \in {"int32"} |-> Primitive("bigint")]
    /\ last.before = EmptyCache
    /\ last.ok
    /\ last.targetType = <<"", "User">>
    /\ last.columns =
           << Column("name", Primitive("string")),
              Column("age", Primitive("bigint")),
              Column("hobbies", GlueArray(Primitive("string"))),
              Column("address", GlueStruct(<< Column("street", Primitive("string")),
                                              Column("city", Primitive("string")) >>)) >>

(***************************************************************************)
(* C13: when the selected message type has at least one field and the      *)
(* conversion succeeds, convertProtoToJSONGlueSchema returns a non-empty   *)
(* sequence whose every element has a property named Name and a property   *)
(* named Type.                                                             *)
(***************************************************************************)
JsonRoot == ProtoFiles[json.protoFile]
JsonCalled == json.protoFile # 0

C13_JSONElementsHaveNameAndType ==
    (/\ JsonCalled
     /\ json.ok
     /\ Len(FieldsOf(JsonRoot, TargetType(JsonRoot, json.messageName))) >= 1)
        => /\ Len(json.val) >= 1
           /\ \A k \in 1..Len(json.val) : {"Name", "Type"} \subseteq DOMAIN json.val[k]

(***************************************************************************)
(* C14: every call ends by returning columns or by throwing one of the     *)
(* documented errors (CircularReference, UnsupportedType, MessageNotFound, *)
(* NoMessageTypeFound), and no _convertMessageType run inside it ends      *)
(* otherwise: the recursion of cycle detection never outgrows the nesting  *)
(* of the message types, so the stack is never exhausted.                  *)
(***************************************************************************)
TaxonomyErrors ==
    {"CircularReference", "UnsupportedType", "MessageNotFound", "NoMessageTypeFound"}

C14_CallsEndWithColumnsOrTaxonomyError ==
    /\ Called => (last.ok \/ last.err.error \in TaxonomyErrors)
    /\ \A i \in 1..Len(last.messages) :
           last.messages[i].ok \/ last.messages[i].err.error \in TaxonomyErrors

(***************************************************************************)
(* C15: when a call throws CircularReference, no field of the type under   *)
(* detection has been converted, the cache is what it was before the call  *)
(* (no key for the origin or for any type on the cycle was added), and no  *)
(* columns, not even partial ones, are returned; the same holds for every  *)
(* _convertMessageType run inside the call that ends with that error.      *)
(***************************************************************************)
C15_CircularReferenceLeavesNoTrace ==
    /\ (Called /\ last.err.error = "CircularReference")
           => /\ ~last.ok
              /\ last.columns = <<>>
              /\ _processedMessages = last.before
              /\ \A j \in 1..Len(last.fields) :
                     last.fields[j].field.parent # last.err.arg
              /\ \A t \in {last.err.arg} \cup Reachable(LastRoot, last.err.arg) :
                     OnCycle(LastRoot, t) /\ t \notin DOMAIN last.before
                         => t \notin DOMAIN _processedMessages
    /\ \A i \in 1..Len(last.messages) :
           LET e == last.messages[i]
           IN  e.err.error = "CircularReference"
                   => /\ ~e.ok
                      /\ e.columns = <<>>
                      /\ e.detect
                      /\ \A j \in 1..Len(last.fields) :
                             last.fields[j].field.parent # e.err.arg

\* a converter that holds converted types is asked for a type on a cycle
C15_Witness ==
    /\ calls = 2
    /\ last.err = CircularReference(<<"", "MessageA">>)
    /\ last.before # EmptyCache
    /\ _processedMessages = last.before
    /\ last.columns = <<>>

(***************************************************************************)
(* C16: the cache of a converter starts empty and only grows, through      *)
(* successful and failing calls alike: every key present before a call, or *)
(* at the start of any _convertMessageType run inside it, is still present *)
(* afterwards with the same columns.                                       *)
(***************************************************************************)
Extends(old, new) ==
    \A fullName \in DOMAIN old :
        /\ fullName \in DOMAIN new
        /\ new[fullName] = old[fullName]

C16_CacheOnlyGrows ==
    /\ calls = 0 => _processedMessages = EmptyCache
    /\ Extends(last.before, _processedMessages)
    /\ \A i \in 1..Len(last.messages) :
           /\ Extends(last.before, last.messages[i].before)
           /\ Extends(last.messages[i].before, _processedMessages)
    /\ \A i \in 1..Len(last.fields) :
           /\ Extends(last.before, last.fields[i].before)
           /\ Extends(last.fields[i].before, _processedMessages)

\* a failing call on a converter that holds converted types adds a key
C16_Witness ==
    /\ calls = 2
    /\ ~last.ok
    /\ last.before # EmptyCache
    /\ DOMAIN _processedMessages # DOMAIN last.before
    /\ Extends(last.before, _processedMessages)

(***************************************************************************)
(* C17: when two conversions of one file run interleaved on one converter, *)
(* switching after any cache check, cycle check, field conversion or cache *)
(* assignment, each returns (or throws) what it returns when run alone on  *)
(* a new converter, and every cache entry written is the columns the       *)
(* sequential conversion of that type yields; the interleaving can only    *)
(* make a type's fields be converted and stored more than once.            *)
(***************************************************************************)
Alone(messageName) ==
    generateGlueSchema(GraphRoot, typeMapping, EmptyCache, messageName)

AloneType(messageType) ==
    _convertMessageType(GraphRoot, typeMapping, messageType,
        [cache |-> EmptyCache, fields |-> <<>>, messages |-> <<>>])

C17_InterleavedAgreesWithSequential ==
    graph # 0
        => /\ \A p \in Threads :
                  threads[p].pc = "done"
                      => /\ threads[p].ok = Alone(threads[p].messageName).ok
                         /\ threads[p].val = Alone(threads[p].messageName).val
                         /\ threads[p].err = Alone(threads[p].messageName).err
           /\ \A fullName \in DOMAIN _processedMessages :
                  /\ AloneType(fullName).ok
                  /\ _processedMessages[fullName] = AloneType(fullName).val

\* both calls converted the diamond's shared type before either stored it
C17_Witness ==
    /\ graph = 5
    /\ \A p \in Threads :
           /\ threads[p].pc = "done"
           /\ threads[p].ok
           /\ threads[p].messageName = Name(<<"ParentMessage">>)
           /\ Len(threads[p].val) = 3
    /\ storeCount[<<"", "NestedMessage">>] = 2
    /\ convertCount[<<(<<"", "NestedMessage">>), "field1">>] = 2

(***************************************************************************)
(* C18: when the first call on a new converter returns columns, no message *)
(* type reachable from the converted type (the type itself included) is    *)
(* reachable from itself; the returned columns are then the finite tree    *)
(* that follows the type's fields, so no struct holds, at any depth, a     *)
(* sub-column built from its own message type.                             *)
(***************************************************************************)
C18_ReturnedColumnsComeFromAcyclicTypes ==
    (calls = 1 /\ last.ok)
        => /\ \A t \in {last.targetType} \cup Reachable(LastRoot, last.targetType) :
                  ~OnCycle(LastRoot, t)
           /\ IsConversionOf(LastRoot, last.targetType, last.columns)

\* Team holds an array of Member structs; neither type is on a cycle
C18_Witness ==
    /\ calls = 1
    /\ last.ok
    /\ last.targetType = <<"", "Team">>
    /\ Reachable(LastRoot, last.targetType) = {<<"", "Member">>}
    /\ last.columns[2].type.itemType.kind = "struct"

(***************************************************************************)
(* C19: on a converter used on a single file, in every state, also after   *)
(* calls that threw part-way, every cache key is the fullName of a message *)
(* type of the file and holds that type's complete conversion: one column  *)
(* per field, in field order, each with the type the mapping, the enum     *)
(* entry, the struct of the referenced type and the array wrapping give.   *)
(* A type whose conversion threw is not a key, and a type is not a key     *)
(* while its own fields are being converted.                               *)
(***************************************************************************)
ExpectedScalar(tag) ==
    IF tag \in DOMAIN config THEN config[tag]
    ELSE IF tag = "enum" THEN Primitive("string")
    ELSE IF tag \in DefaultTags THEN DocumentedDefault(tag)
    ELSE Primitive("")

RECURSIVE ExpectedColumns(_, _)
ExpectedColumns(root, messageType) ==
    LET fields == FieldsOf(root, messageType)
        single(f) == IF IsType(root, f.resolvedType)
                     THEN GlueStruct(ExpectedColumns(root, f.resolvedType))
                     ELSE ExpectedScalar(TagOf(root, f))
    IN  [k \in 1..Len(fields) |->
            Column(fields[k].name,
                   IF fields[k].repeated THEN GlueArray(single(fields[k]))
                   ELSE single(fields[k]))]

C19_CacheHoldsOnlyCompleteConversions ==
    /\ \A fullName \in DOMAIN _processedMessages :
           /\ IsType(ProtoFiles[graph], fullName)
           /\ \A t \in {fullName} \cup Reachable(ProtoFiles[graph], fullName) :
                  ~OnCycle(ProtoFiles[graph], t)
           /\ _processedMessages[fullName] = ExpectedColumns(ProtoFiles[graph], fullName)
    /\ \A i \in 1..Len(last.messages) :
           LET e == last.messages[i]
           IN  (~e.ok /\ e.type \notin DOMAIN e.before)
                   => e.type \notin DOMAIN _processedMessages
    /\ \A i \in 1..Len(last.fields) :
           last.fields[i].field.parent \notin DOMAIN last.fields[i].before

\* Team's conversion threw on its last field after Member was stored
C19_Witness ==
    /\ calls = 2
    /\ ~last.ok
    /\ last.err = [error |-> "UnsupportedType", arg |-> <<"uint32">>]
    /\ DOMAIN _processedMessages = {<<"", "Member">>}
    /\ Len(_processedMessages[<<"", "Member">>]) = 3

(***************************************************************************)
(* C20: every call on a reused converter ends as the same call (same file, *)
(* same message name) ends on a new converter with the same mapping: the   *)
(* same columns, or an error of the same kind; also when files given to    *)
(* different calls declare message types of the same fullName with         *)
(* different fields or on a cycle.                                         *)
(***************************************************************************)
Fresh == generateGlueSchema(LastRoot, typeMapping, EmptyCache, last.messageName)

C20_ReusedConverterAnswersAsNew ==
    Called
        => /\ last.ok = Fresh.ok
           /\ last.ok => last.columns = Fresh.val
           /\ ~last.ok => last.err.error = Fresh.err.error

====
